---- MODULE Spec2Model ----
(***************************************************************************)
(* Model of the helper functions of the notebook                           *)
(* src/notebook/cdse-stac-eopf-to-zarr.ipynb:                              *)
(*   extract_s3_path_from_url, get_product and download.                   *)
(*                                                                         *)
(* A Python str is a sequence of one-character strings, so that prefix,    *)
(* suffix, strip, split and join are computed character by character.      *)
(* The local filesystem is a set of directories and a set of files, each   *)
(* named by the components of its resolved absolute path; a file carries   *)
(* the key of the object whose bytes it holds.                             *)
(***************************************************************************)
EXTENDS Naturals, Sequences, FiniteSets

VARIABLES
    url,            \* extract_s3_path_from_url: the argument
    ex_pc,          \* "call" | "done"
    ex_out,         \* [kind |-> "none"|"return"|"raise", value |-> str]
    bucket,         \* the keys held by the bucket
    s3_failed,      \* the keys whose transfer the storage failed, in order
    arg_product,    \* download: the product argument
    target,         \* download: the target argument
    product,        \* download: the local variable product
    files,          \* download: the listing, a sequence of keys
    idx,            \* download: position of the for loop in files
    safe_dir,       \* download: local variable
    local_path,     \* download: local variable
    attempted,      \* the keys download_file has been called with, in order
    object_url,     \* get_product: argument
    output_path,    \* get_product: argument
    pc,             \* position in download / get_product
    raised,         \* "" or the name of the exception that left the function
    ret,            \* the returned path, <<>> before a return
    fs_dirs,        \* local filesystem: directories
    fs_files,       \* local filesystem: files, [path, src]
    fs0_dirs,       \* the filesystem when the function was called
    fs0_files

ex_vars == <<url, ex_pc, ex_out>>
s3_vars == <<bucket, s3_failed>>
dl_vars == <<arg_product, target, product, files, idx, safe_dir, local_path, attempted>>
gp_vars == <<object_url, output_path>>
fs_vars == <<fs_dirs, fs_files, fs0_dirs, fs0_files>>
ctl_vars == <<pc, raised, ret>>
vars == <<ex_vars, s3_vars, dl_vars, gp_vars, fs_vars, ctl_vars>>

(***************************************************************************)
(* Bounds.                                                                 *)
(***************************************************************************)
MaxTail == 4
MaxKeys == 3

(***************************************************************************)
(* str methods.                                                            *)
(***************************************************************************)
SEP == "/"

StartsWith(s, p) == Len(s) >= Len(p) /\ SubSeq(s, 1, Len(p)) = p

EndsWith(s, p) == Len(s) >= Len(p) /\ SubSeq(s, Len(s) - Len(p) + 1, Len(s)) = p

DropFirst(s, n) == SubSeq(s, n + 1, Len(s))

\* str.find for a single character, 1-based; 0 when absent
Find(s, c) ==
    IF \E i \in 1..Len(s) : s[i] = c
    THEN CHOOSE i \in 1..Len(s) : s[i] = c /\ \A j \in 1..(i - 1) : s[j] # c
    ELSE 0

\* str.rfind for a single character, 1-based; 0 when absent
RFind(s, c) ==
    IF \E i \in 1..Len(s) : s[i] = c
    THEN CHOOSE i \in 1..Len(s) : s[i] = c /\ \A j \in (i + 1)..Len(s) : s[j] # c
    ELSE 0

\* position of the first character of s that is in cs; Len(s)+1 when none
FindAny(s, cs) ==
    IF \E i \in 1..Len(s) : s[i] \in cs
    THEN CHOOSE i \in 1..Len(s) : s[i] \in cs /\ \A j \in 1..(i - 1) : s[j] \notin cs
    ELSE Len(s) + 1

RECURSIVE LStrip(_, _)
LStrip(s, c) == IF s # <<>> /\ s[1] = c THEN LStrip(Tail(s), c) ELSE s

RECURSIVE RStrip(_, _)
RStrip(s, c) ==
    IF s # <<>> /\ s[Len(s)] = c THEN RStrip(SubSeq(s, 1, Len(s) - 1), c) ELSE s

Remove(s, cs) == SelectSeq(s, LAMBDA c : c \notin cs)

\* all strings over alphabet A of length at most n
Strings(A, n) == UNION {[1..k -> A] : k \in 0..n}

(***************************************************************************)
(* urllib.parse.urlparse, as far as extract_s3_path_from_url reads it:     *)
(* scheme, netloc and path.  Characters are ASCII.                         *)
(***************************************************************************)
Letters == {"a", "b", "d", "h", "p", "s", "t", "x", "S", "A", "F", "E"}
Digits == {"3"}
SchemeChars == Letters \cup Digits \cup {"+", "-", "."}
UNSAFE_URL_BYTES_TO_REMOVE == {"\t", "\r", "\n"}
WHATWG_C0_CONTROL_OR_SPACE == {"\t", "\r", "\n", " "}

Lower(c) ==
    CASE c = "S" -> "s" [] c = "A" -> "a" [] c = "F" -> "f" [] c = "E" -> "e"
      [] OTHER -> c

LowerStr(s) == [i \in 1..Len(s) |-> Lower(s[i])]

RECURSIVE LStripSet(_, _)
LStripSet(s, cs) == IF s # <<>> /\ s[1] \in cs THEN LStripSet(Tail(s), cs) ELSE s

UrlParse(u) ==
    LET u1 == Remove(LStripSet(u, WHATWG_C0_CONTROL_OR_SPACE), UNSAFE_URL_BYTES_TO_REMOVE)
        i == Find(u1, ":")
        hasScheme == /\ i > 1
                     /\ u1[1] \in Letters
                     /\ \A j \in 1..(i - 1) : u1[j] \in SchemeChars
        scheme == IF hasScheme THEN LowerStr(SubSeq(u1, 1, i - 1)) ELSE <<>>
        u2 == IF hasScheme THEN DropFirst(u1, i) ELSE u1
        hasNetloc == StartsWith(u2, <<"/", "/">>)
        u3 == IF hasNetloc THEN DropFirst(u2, 2) ELSE u2
        n == IF hasNetloc THEN FindAny(u3, {"/", "?", "#"}) - 1 ELSE 0
        netloc == SubSeq(u3, 1, n)
        u4 == DropFirst(u3, n)
        path == SubSeq(u4, 1, FindAny(u4, {"?", "#"}) - 1)
        \* "Invalid IPv6 URL": one kind of square bracket in netloc without the other
        bad == \/ (\E k \in 1..n : netloc[k] = "[") /\ ~(\E k \in 1..n : netloc[k] = "]")
               \/ (\E k \in 1..n : netloc[k] = "]") /\ ~(\E k \in 1..n : netloc[k] = "[")
    IN  [raised |-> bad, scheme |-> scheme, netloc |-> netloc, path |-> path]

S3_SCHEME_PREFIX == <<"s", "3", ":", "/", "/">>

\* the guard of the early return: url.startswith('s3://')
IsS3Uri(u) == StartsWith(u, S3_SCHEME_PREFIX)

Returned(v) == [kind |-> "return", value |-> v]
Raise(e) == [kind |-> "raise", value |-> e]

\* path[1:] in place of path.lstrip('/')
ParsedObjectPathOneSlash(u) ==
    LET parsed_url == UrlParse(u)
    IN  IF parsed_url.raised THEN Raise(<<"ValueError">>)
        ELSE IF parsed_url.scheme # <<"s", "3">> THEN Raise(<<"ValueError">>)
        ELSE Returned(DropFirst(parsed_url.path, 1))

ParsedObjectPath(u) ==
    LET parsed_url == UrlParse(u)
    IN  IF parsed_url.raised THEN Raise(<<"ValueError">>)
        ELSE IF parsed_url.scheme # <<"s", "3">> THEN Raise(<<"ValueError">>)
        ELSE Returned(LStrip(parsed_url.path, "/"))

\* the function without its early return
extract_always_parsed(u) == ParsedObjectPath(u)

extract_s3_path_from_url(u) ==
    IF ~IsS3Uri(u) THEN Returned(u) ELSE ParsedObjectPath(u)

(***************************************************************************)
(* posixpath.                                                              *)
(***************************************************************************)
CURDIR == <<".">>
PARDIR == <<".", ".">>
\* os.getcwd(): the notebook's working directory, /w
CWD == <<"/", "w">>

IsAbs(p) == StartsWith(p, <<SEP>>)

\* str.split('/')
RECURSIVE Split(_)
Split(s) ==
    LET i == Find(s, SEP)
    IN  IF i = 0 THEN <<s>> ELSE <<SubSeq(s, 1, i - 1)>> \o Split(DropFirst(s, i))

\* '/'.join(comps)
RECURSIVE JoinSep(_)
JoinSep(comps) ==
    IF comps = <<>> THEN <<>>
    ELSE IF Len(comps) = 1 THEN comps[1]
    ELSE comps[1] \o <<SEP>> \o JoinSep(Tail(comps))

\* os.path.join(a, b)
OsPathJoin(a, b) ==
    IF IsAbs(b) THEN b
    ELSE IF a = <<>> \/ EndsWith(a, <<SEP>>) THEN a \o b
    ELSE a \o <<SEP>> \o b

\* os.path.split(p): (head, tail)
OsPathSplit(p) ==
    LET i == RFind(p, SEP)
        head == SubSeq(p, 1, i)
        tl == DropFirst(p, i)
    IN  [head |-> IF head # <<>> /\ RStrip(head, SEP) # <<>> THEN RStrip(head, SEP) ELSE head,
         tail |-> tl]

\* os.path.basename(p)
Basename(p) == DropFirst(p, RFind(p, SEP))

\* os.path.dirname(p)
Dirname(p) == OsPathSplit(p).head

\* the loop of posixpath.normpath over the components of a path
RECURSIVE NormFold(_, _, _)
NormFold(comps, new_comps, initial_slashes) ==
    IF comps = <<>> THEN new_comps
    ELSE LET comp == Head(comps)
             rest == Tail(comps)
         IN  IF comp = <<>> \/ comp = CURDIR
               THEN NormFold(rest, new_comps, initial_slashes)
             ELSE IF \/ comp # PARDIR
                     \/ (~initial_slashes /\ new_comps = <<>>)
                     \/ (new_comps # <<>> /\ new_comps[Len(new_comps)] = PARDIR)
               THEN NormFold(rest, Append(new_comps, comp), initial_slashes)
             ELSE IF new_comps # <<>>
               THEN NormFold(rest, SubSeq(new_comps, 1, Len(new_comps) - 1), initial_slashes)
             ELSE NormFold(rest, new_comps, initial_slashes)

\* the components of os.path.abspath(p): [x for x in abspath(p).split('/') if x]
AbsComps(p) == NormFold(Split(IF IsAbs(p) THEN p ELSE OsPathJoin(CWD, p)), <<>>, TRUE)

RECURSIVE CommonLen(_, _)
CommonLen(a, b) ==
    IF a # <<>> /\ b # <<>> /\ Head(a) = Head(b) THEN 1 + CommonLen(Tail(a), Tail(b)) ELSE 0

\* os.path.relpath(path, start), for a non-empty path
RelPath(path, start) ==
    LET start_list == AbsComps(start)
        path_list == AbsComps(path)
        i == CommonLen(start_list, path_list)
        rel_list == [k \in 1..(Len(start_list) - i) |-> PARDIR] \o DropFirst(path_list, i)
    IN  IF rel_list = <<>> THEN CURDIR ELSE JoinSep(rel_list)

(***************************************************************************)
(* The local filesystem.  A path names the entry at AbsComps(path).        *)
(***************************************************************************)
Prefixes(comps) == {SubSeq(comps, 1, k) : k \in 1..Len(comps)}

IsDir(dirs, c) == c = <<>> \/ c \in dirs

IsFile(fls, c) == \E f \in fls : f.path = c

\* os.makedirs(name, exist_ok=True): "" when it succeeds, else the exception
MakedirsError(fls, name) ==
    LET c == AbsComps(name)
    IN  IF name = <<>> THEN "FileNotFoundError"
        ELSE IF \E q \in Prefixes(c) : q # c /\ IsFile(fls, q) THEN "NotADirectoryError"
        ELSE IF IsFile(fls, c) THEN "FileExistsError"
        ELSE ""

MakedirsDirs(dirs, name) == dirs \cup Prefixes(AbsComps(name))

\* Bucket.download_file(key, filename) once the object's bytes have arrived:
\* "" when the local file can be written, else the exception
WriteError(dirs, fls, filename) ==
    LET c == AbsComps(filename)
    IN  IF filename = <<>> \/ EndsWith(filename, <<SEP>>) \/ IsDir(dirs, c) THEN "OSError"
        ELSE IF ~IsDir(dirs, SubSeq(c, 1, Len(c) - 1)) THEN "OSError"
        ELSE ""

WriteFile(fls, key, filename) ==
    LET c == AbsComps(filename)
    IN  {f \in fls : f.path # c} \cup {[path |-> c, src |-> key]}

(***************************************************************************)
(* The object store.  A listing comes back in the store's order: the keys  *)
(* in ascending order of their bytes.                                      *)
(***************************************************************************)
ASCII == <<"\t", "\n", "\r", " ", "#", "+", "-", ".", "/", "3", ":", "?", "A", "E",
           "F", "S", "[", "]", "a", "b", "d", "h", "o", "p", "s", "t", "u", "w", "x">>

Ord(c) == CHOOSE i \in 1..Len(ASCII) : ASCII[i] = c

RECURSIVE LexLess(_, _)
LexLess(a, b) ==
    IF b = <<>> THEN FALSE
    ELSE IF a = <<>> THEN TRUE
    ELSE IF a[1] # b[1] THEN Ord(a[1]) < Ord(b[1])
    ELSE LexLess(Tail(a), Tail(b))

RECURSIVE SortKeys(_)
SortKeys(S) ==
    IF S = {} THEN <<>>
    ELSE LET m == CHOOSE k \in S : \A o \in S \ {k} : LexLess(k, o)
         IN  <<m>> \o SortKeys(S \ {m})

\* list(bucket.objects.filter(Prefix=prefix))
Listing(keys, prefix) == SortKeys({k \in keys : StartsWith(k, prefix)})

\* what a failing storage call raises
StorageErrors == {"ClientError", "EndpointConnectionError"}

(***************************************************************************)
(* download(bucket, product, target)                                       *)
(***************************************************************************)
SAFE_SUFFIX == <<".", "S", "A", "F", "E">>

\* product with the trailing '/' ensured
WithSlash(p) == IF ~EndsWith(p, <<SEP>>) THEN p \o <<SEP>> ELSE p

\* safe_dir = os.path.basename(product.rstrip('/'))
SafeDirOf(p) == Basename(RStrip(p, SEP))

\* a suffix test that forgets the dot of the extension
HasSafeSuffixNoDot(sd) == EndsWith(sd, <<"S", "A", "F", "E">>)

\* safe_dir.endswith('.SAFE')
HasSafeSuffix(sd) == EndsWith(sd, SAFE_SUFFIX)

\* local_path = os.path.join(target, safe_dir)
LocalPathOf(t, sd) == OsPathJoin(t, sd)

\* local_file_path of one key
LocalFilePath(lp, key, prod) == OsPathJoin(lp, RelPath(key, prod))

Fail(e) ==
    /\ pc' = "raised"
    /\ raised' = e
    /\ ret' = <<>>

DL_List ==
    /\ pc = "dl_start"
    /\ product' = WithSlash(arg_product)
    /\ files' = Listing(bucket, product')
    /\ pc' = "dl_listed"
    /\ UNCHANGED <<raised, ret, idx, safe_dir, local_path, attempted, arg_product, target>>
    /\ UNCHANGED <<ex_vars, s3_vars, gp_vars, fs_vars>>

DL_ListFails ==
    /\ pc = "dl_start"
    /\ product' = WithSlash(arg_product)
    /\ \E e \in StorageErrors :
         /\ s3_failed' = Append(s3_failed, [op |-> "list", key |-> product', err |-> e])
         /\ Fail(e)
    /\ UNCHANGED <<files, idx, safe_dir, local_path, attempted, arg_product, target>>
    /\ UNCHANGED <<ex_vars, bucket, gp_vars, fs_vars>>

\* the two checks in the other order
DL_Check_SuffixFirst ==
    /\ pc = "dl_listed"
    /\ safe_dir' = SafeDirOf(product)
    /\ IF ~HasSafeSuffix(safe_dir')
         THEN Fail("ValueError")
       ELSE IF files = <<>>
         THEN Fail("FileNotFoundError")
       ELSE pc' = "dl_mkdir" /\ UNCHANGED <<raised, ret>>
    /\ UNCHANGED <<product, files, idx, local_path, attempted, arg_product, target>>
    /\ UNCHANGED <<ex_vars, s3_vars, gp_vars, fs_vars>>

\* the local directory made before the suffix check
DL_Check_MkdirFirst ==
    /\ pc = "dl_listed"
    /\ IF files = <<>>
         THEN Fail("FileNotFoundError") /\ UNCHANGED <<safe_dir, fs_dirs>>
       ELSE /\ safe_dir' = SafeDirOf(product)
            /\ fs_dirs' = IF MakedirsError(fs_files, LocalPathOf(target, safe_dir')) = ""
                            THEN MakedirsDirs(fs_dirs, LocalPathOf(target, safe_dir'))
                            ELSE fs_dirs
            /\ IF ~HasSafeSuffix(safe_dir')
                 THEN Fail("ValueError")
                 ELSE pc' = "dl_mkdir" /\ UNCHANGED <<raised, ret>>
    /\ UNCHANGED <<product, files, idx, local_path, attempted, arg_product, target>>
    /\ UNCHANGED <<ex_vars, s3_vars, gp_vars, fs_files, fs0_dirs, fs0_files>>

DL_Check ==
    /\ pc = "dl_listed"
    /\ IF files = <<>>
         THEN Fail("FileNotFoundError") /\ UNCHANGED safe_dir
       ELSE /\ safe_dir' = SafeDirOf(product)
            /\ IF ~HasSafeSuffix(safe_dir')
                 THEN Fail("ValueError")
                 ELSE pc' = "dl_mkdir" /\ UNCHANGED <<raised, ret>>
    /\ UNCHANGED <<product, files, idx, local_path, attempted, arg_product, target>>
    /\ UNCHANGED <<ex_vars, s3_vars, gp_vars, fs_vars>>

DL_MakeLocalDir ==
    /\ pc = "dl_mkdir"
    /\ local_path' = LocalPathOf(target, safe_dir)
    /\ LET e == MakedirsError(fs_files, local_path')
       IN  IF e # ""
             THEN Fail(e) /\ UNCHANGED <<fs_dirs, idx>>
             ELSE /\ fs_dirs' = MakedirsDirs(fs_dirs, local_path')
                  /\ idx' = 1
                  /\ pc' = "dl_loop"
                  /\ UNCHANGED <<raised, ret>>
    /\ UNCHANGED <<product, files, safe_dir, attempted, arg_product, target>>
    /\ UNCHANGED <<ex_vars, s3_vars, gp_vars, fs_files, fs0_dirs, fs0_files>>

\* a directory marker: continue
DL_Skip ==
    /\ pc = "dl_loop"
    /\ idx <= Len(files)
    /\ EndsWith(files[idx], <<SEP>>)
    /\ idx' = idx + 1
    /\ UNCHANGED <<pc, raised, ret, product, files, safe_dir, local_path, attempted,
                   arg_product, target>>
    /\ UNCHANGED <<ex_vars, s3_vars, gp_vars, fs_vars>>

\* one iteration in which the storage delivers the object
DL_Copy ==
    /\ pc = "dl_loop"
    /\ idx <= Len(files)
    /\ ~EndsWith(files[idx], <<SEP>>)
    /\ LET local_file_path == LocalFilePath(local_path, files[idx], product)
           parent == Dirname(local_file_path)
           e1 == MakedirsError(fs_files, parent)
           dirs1 == MakedirsDirs(fs_dirs, parent)
           e2 == WriteError(dirs1, fs_files, local_file_path)
       IN  IF e1 # ""
             THEN Fail(e1) /\ UNCHANGED <<fs_dirs, fs_files, idx, attempted>>
           ELSE /\ fs_dirs' = dirs1
                /\ attempted' = Append(attempted, files[idx])
                /\ IF e2 # ""
                     THEN Fail(e2) /\ UNCHANGED <<fs_files, idx>>
                     ELSE /\ fs_files' = WriteFile(fs_files, files[idx], local_file_path)
                          /\ idx' = idx + 1
                          /\ UNCHANGED <<pc, raised, ret>>
    /\ UNCHANGED <<product, files, safe_dir, local_path, arg_product, target>>
    /\ UNCHANGED <<ex_vars, s3_vars, gp_vars, fs0_dirs, fs0_files>>

\* a loop that reports the failed copy and goes on to the next key
DL_CopyFails_Continue ==
    /\ pc = "dl_loop"
    /\ idx <= Len(files)
    /\ ~EndsWith(files[idx], <<SEP>>)
    /\ LET parent == Dirname(LocalFilePath(local_path, files[idx], product))
       IN  /\ MakedirsError(fs_files, parent) = ""
           /\ fs_dirs' = MakedirsDirs(fs_dirs, parent)
    /\ attempted' = Append(attempted, files[idx])
    /\ \E e \in StorageErrors :
         s3_failed' = Append(s3_failed, [op |-> "get", key |-> files[idx], err |-> e])
    /\ idx' = idx + 1
    /\ UNCHANGED <<pc, raised, ret>>
    /\ UNCHANGED <<product, files, safe_dir, local_path, arg_product, target>>
    /\ UNCHANGED <<ex_vars, bucket, gp_vars, fs_files, fs0_dirs, fs0_files>>

\* one iteration in which bucket.download_file fails in the storage
DL_CopyFails ==
    /\ pc = "dl_loop"
    /\ idx <= Len(files)
    /\ ~EndsWith(files[idx], <<SEP>>)
    /\ LET parent == Dirname(LocalFilePath(local_path, files[idx], product))
       IN  /\ MakedirsError(fs_files, parent) = ""
           /\ fs_dirs' = MakedirsDirs(fs_dirs, parent)
    /\ attempted' = Append(attempted, files[idx])
    /\ \E e \in StorageErrors :
         /\ s3_failed' = Append(s3_failed, [op |-> "get", key |-> files[idx], err |-> e])
         /\ Fail(e)
    /\ UNCHANGED <<product, files, idx, safe_dir, local_path, arg_product, target>>
    /\ UNCHANGED <<ex_vars, bucket, gp_vars, fs_files, fs0_dirs, fs0_files>>

DL_Return ==
    /\ pc = "dl_loop"
    /\ idx > Len(files)
    /\ pc' = "returned"
    /\ ret' = local_path
    /\ UNCHANGED <<raised, product, files, idx, safe_dir, local_path, attempted,
                   arg_product, target>>
    /\ UNCHANGED <<ex_vars, s3_vars, gp_vars, fs_vars>>

(***************************************************************************)
(* get_product(s3_resource, bucket_name, object_url, output_path)          *)
(***************************************************************************)
\* local_file_path = os.path.join(output_path, filename)
ProductFilePath(out, obj) == OsPathJoin(out, OsPathSplit(obj).tail)

GP_MakeDirs ==
    /\ pc = "gp_start"
    /\ LET e == MakedirsError(fs_files, output_path)
       IN  IF e # ""
             THEN Fail(e) /\ UNCHANGED fs_dirs
             ELSE /\ fs_dirs' = MakedirsDirs(fs_dirs, output_path)
                  /\ pc' = "gp_download"
                  /\ UNCHANGED <<raised, ret>>
    /\ UNCHANGED <<ex_vars, s3_vars, dl_vars, gp_vars, fs_files, fs0_dirs, fs0_files>>

\* the storage delivers the object
GP_Download ==
    /\ pc = "gp_download"
    /\ object_url \in bucket
    /\ attempted' = Append(attempted, object_url)
    /\ LET local_file_path == ProductFilePath(output_path, object_url)
           e == WriteError(fs_dirs, fs_files, local_file_path)
       IN  IF e # ""
             THEN Fail(e) /\ UNCHANGED fs_files
             ELSE /\ fs_files' = WriteFile(fs_files, object_url, local_file_path)
                  /\ pc' = "returned"
                  /\ ret' = local_file_path
                  /\ UNCHANGED raised
    /\ UNCHANGED <<arg_product, target, product, files, idx, safe_dir, local_path>>
    /\ UNCHANGED <<ex_vars, s3_vars, gp_vars, fs_dirs, fs0_dirs, fs0_files>>

\* an except clause that prints the error and does not raise it again
GP_DownloadFails_Swallowed ==
    /\ pc = "gp_download"
    /\ attempted' = Append(attempted, object_url)
    /\ \E e \in StorageErrors :
         /\ object_url \notin bucket => e = "ClientError"
         /\ s3_failed' = Append(s3_failed, [op |-> "get", key |-> object_url, err |-> e])
    /\ pc' = "returned"
    /\ ret' = ProductFilePath(output_path, object_url)
    /\ UNCHANGED raised
    /\ UNCHANGED <<arg_product, target, product, files, idx, safe_dir, local_path>>
    /\ UNCHANGED <<ex_vars, bucket, gp_vars, fs_vars>>

\* the except clause: the error is printed and raised again
GP_DownloadFails ==
    /\ pc = "gp_download"
    /\ attempted' = Append(attempted, object_url)
    /\ \E e \in StorageErrors :
         /\ object_url \notin bucket => e = "ClientError"
         /\ s3_failed' = Append(s3_failed, [op |-> "get", key |-> object_url, err |-> e])
         /\ Fail(e)
    /\ UNCHANGED <<arg_product, target, product, files, idx, safe_dir, local_path>>
    /\ UNCHANGED <<ex_vars, bucket, gp_vars, fs_vars>>

(***************************************************************************)
(* extract_s3_path_from_url(url)                                           *)
(***************************************************************************)
EX_Call ==
    /\ ex_pc = "call"
    /\ ex_out' = extract_s3_path_from_url(url)
    /\ ex_pc' = "done"
    /\ UNCHANGED <<url, s3_vars, dl_vars, gp_vars, fs_vars, ctl_vars>>

(***************************************************************************)
(* Inputs.                                                                 *)
(***************************************************************************)
UrlHeads == {<<>>, S3_SCHEME_PREFIX, <<"s", "3", ":", "/">>, <<"S", "3", ":", "/", "/">>,
             <<"h", "t", "t", "p", ":", "/", "/">>}
UrlAlphabet == {"/", "?", "#", "[", "\t", "a"}
Urls == {h \o t : h \in UrlHeads, t \in Strings(UrlAlphabet, MaxTail)}

P_SAFE == <<"p", ".", "S", "A", "F", "E">>
D_P_SAFE == <<"d", "/">> \o P_SAFE
PSAFE == <<"p", "S", "A", "F", "E">>
OUT == <<"o", "u", "t">>

Products == {d \o n \o t : d \in {<<>>, <<"d", "/">>},
                           n \in {P_SAFE, PSAFE, <<>>},
                           t \in {<<>>, <<"/">>, <<"/", "/">>}}

Keys == {P_SAFE \o <<"/">> \o r :
           r \in {<<>>, <<"a">>, <<"d", "/", "b">>, <<"/", "a">>,
                  <<".", ".", "/", "x">>, <<"a", "/", "b">>}}
        \cup {D_P_SAFE \o <<"/">> \o r : r \in {<<"a">>, <<"d", "/">>}}
        \cup {PSAFE \o <<"/", "a">>}

Buckets == {B \in SUBSET Keys : Cardinality(B) <= MaxKeys}

Targets == {<<>>, OUT}

W == <<"w">>
BaseDirs == {<<W>>}
\* what an earlier download of p.SAFE has left in /w and in /w/out
StaleDirs == BaseDirs \cup {<<W, P_SAFE>>, <<W, OUT>>, <<W, OUT, P_SAFE>>}
StaleFiles == {[path |-> <<W, P_SAFE, <<"o">>>>, src |-> <<"o">>],
               [path |-> <<W, OUT, P_SAFE, <<"o">>>>, src |-> <<"o">>]}
\* files where the download needs directories
BlockDirs == BaseDirs \cup {<<W, P_SAFE>>}
BlockFiles == {[path |-> <<W, P_SAFE, <<"d">>>>, src |-> <<"o">>],
               [path |-> <<W, OUT>>, src |-> <<"o">>]}

Filesystems == {[dirs |-> BaseDirs, fls |-> {}],
                [dirs |-> StaleDirs, fls |-> StaleFiles],
                [dirs |-> BlockDirs, fls |-> BlockFiles]}

ObjectUrls == Keys
OutputPaths == {<<>>, OUT, OUT \o <<"/">>, OUT \o <<"/", "d">>, P_SAFE \o <<"/", "d">>}

IdleExtract ==
    /\ url = <<>>
    /\ ex_pc = "idle"
    /\ ex_out = [kind |-> "none", value |-> <<>>]

IdleDownload ==
    /\ arg_product = <<>>
    /\ target = <<>>

IdleGetProduct ==
    /\ object_url = <<>>
    /\ output_path = <<>>

IdleStore ==
    /\ bucket = {}
    /\ fs_dirs = BaseDirs
    /\ fs_files = {}
    /\ fs0_dirs = fs_dirs
    /\ fs0_files = fs_files

InitLocals ==
    /\ product = <<>>
    /\ files = <<>>
    /\ idx = 0
    /\ safe_dir = <<>>
    /\ local_path = <<>>
    /\ attempted = <<>>
    /\ s3_failed = <<>>
    /\ raised = ""
    /\ ret = <<>>

InitStore ==
    /\ bucket \in Buckets
    /\ \E f \in Filesystems :
         /\ fs_dirs = f.dirs
         /\ fs_files = f.fls
    /\ fs0_dirs = fs_dirs
    /\ fs0_files = fs_files

InitExtract ==
    /\ url \in Urls
    /\ ex_pc = "call"
    /\ ex_out = [kind |-> "none", value |-> <<>>]
    /\ IdleDownload /\ IdleGetProduct /\ IdleStore /\ InitLocals
    /\ pc = "idle"

InitDownload ==
    /\ arg_product \in Products
    /\ target \in Targets
    /\ InitStore /\ InitLocals
    /\ IdleExtract /\ IdleGetProduct
    /\ pc = "dl_start"

InitGetProduct ==
    /\ object_url \in ObjectUrls
    /\ output_path \in OutputPaths
    /\ InitStore /\ InitLocals
    /\ IdleExtract /\ IdleDownload
    /\ pc = "gp_start"

NextExtract == EX_Call

NextDownload ==
    \/ DL_List
    \/ DL_ListFails
    \/ DL_Check
    \/ DL_MakeLocalDir
    \/ DL_Skip
    \/ DL_Copy
    \/ DL_CopyFails
    \/ DL_Return

NextGetProduct ==
    \/ GP_MakeDirs
    \/ GP_Download
    \/ GP_DownloadFails

SpecExtract == InitExtract /\ [][NextExtract]_vars
SpecDownload == InitDownload /\ [][NextDownload]_vars
SpecGetProduct == InitGetProduct /\ [][NextGetProduct]_vars

Init == InitExtract \/ InitDownload \/ InitGetProduct
Next == NextExtract \/ NextDownload \/ NextGetProduct
Spec == Init /\ [][Next]_vars

(***************************************************************************)
(* Properties.                                                             *)
(***************************************************************************)
SLASH == <<"/">>
DOT_SAFE == <<".", "S", "A", "F", "E">>
S3_URI == <<"s", "3", ":", "/", "/">>

\* the prefix the listing is asked for
PrefixOfCall == IF arg_product # <<>> /\ arg_product[Len(arg_product)] = "/"
                  THEN arg_product ELSE arg_product \o SLASH

\* the keys of the bucket under that prefix
KeysUnderPrefix == {k \in bucket : StartsWith(k, PrefixOfCall)}

NonDirKeys == {k \in KeysUnderPrefix : k[Len(k)] # "/"}

\* the directory name resolved from the product argument
DirNameOfCall == Basename(RStrip(arg_product, "/"))

ListingFailed == \E i \in 1..Len(s3_failed) : s3_failed[i].op = "list"

CopyFailed == \E i \in 1..Len(s3_failed) : s3_failed[i].op = "get"

ChecksDone == pc \notin {"dl_start", "dl_listed"}

NonDir(keys) == SelectSeq(keys, LAMBDA k : ~EndsWith(k, SLASH))

\* C1: when download returns for a product named *.SAFE with a non-empty
\* listing, into a destination directory that did not exist before the call,
\* the directory it returns holds exactly one file per key of the listing that
\* does not end in '/', at the key's path relative to the prefix, holding that
\* object, and no other file.
C1_MirrorIsBijection ==
    (/\ pc = "returned"
     /\ EndsWith(DirNameOfCall, DOT_SAFE)
     /\ KeysUnderPrefix # {}
     /\ AbsComps(ret) \notin fs0_dirs)
    => LET dest == AbsComps(ret)
           under == {f \in fs_files : Len(f.path) > Len(dest)
                                      /\ SubSeq(f.path, 1, Len(dest)) = dest}
       IN  /\ \A k \in NonDirKeys :
                 \E f \in under :
                     /\ f.src = k
                     /\ f.path = AbsComps(ret \o SLASH \o DropFirst(k, Len(PrefixOfCall)))
           /\ Cardinality(under) = Cardinality(NonDirKeys)

\* C2: whenever the listing under the slash-terminated product prefix is
\* empty, download raises FileNotFoundError, whatever the product's name is.
C2_EmptyListingRaises ==
    (ChecksDone /\ ~ListingFailed /\ KeysUnderPrefix = {})
    => (pc = "raised" /\ raised = "FileNotFoundError")

C2_Witness ==
    /\ pc = "raised"
    /\ raised = "FileNotFoundError"
    /\ ~EndsWith(DirNameOfCall, DOT_SAFE)
    /\ bucket # {}

\* C3 as stated: whenever the directory name resolved from the product does
\* not end in '.SAFE', download raises ValueError.
C3_Original ==
    (ChecksDone /\ ~ListingFailed /\ ~EndsWith(DirNameOfCall, DOT_SAFE))
    => (pc = "raised" /\ raised = "ValueError")

\* C3 amended: whenever the directory name resolved from the product does not
\* end in '.SAFE', download raises: ValueError when the listing is non-empty,
\* FileNotFoundError when it is empty, the storage's error when the listing
\* call fails.
C3_BadNameRaises ==
    (ChecksDone /\ ~EndsWith(DirNameOfCall, DOT_SAFE))
    => /\ pc = "raised"
       /\ raised = IF ListingFailed THEN s3_failed[1].err
                   ELSE IF KeysUnderPrefix = {} THEN "FileNotFoundError"
                   ELSE "ValueError"
       /\ ret = <<>>

C3_Witness ==
    /\ pc = "raised"
    /\ raised = "ValueError"
    /\ EndsWith(DirNameOfCall, <<"S", "A", "F", "E">>)

\* C4: for every string that does not start with 's3://',
\* extract_s3_path_from_url returns the string itself and does not raise.
C4_NonS3Unchanged ==
    (ex_pc = "done" /\ ~StartsWith(url, S3_URI))
    => (ex_out.kind = "return" /\ ex_out.value = url)

C4_Witness ==
    /\ ex_pc = "done"
    /\ StartsWith(url, <<"s", "3", ":", "/">>)
    /\ ~StartsWith(url, S3_URI)
    /\ Len(url) > 5
    /\ ex_out.value = url

C6_ReturnsObjectKey ==
    LET r == DropFirst(url, 5)
        i == Find(r, "/")
        bkt == SubSeq(r, 1, i - 1)
        key == DropFirst(r, i)
    IN  (/\ ex_pc = "done"
         /\ StartsWith(url, S3_URI)
         /\ i > 1
         /\ \A j \in 1..(i - 1) : r[j] \in Letters)
        => /\ ex_out.kind = "return"
           /\ ex_out.value = LStrip(key, "/")
           /\ ~StartsWith(ex_out.value, SLASH)
           /\ Split(ex_out.value)[1] = bkt => Split(LStrip(key, "/"))[1] = bkt

\* C7: for every successful call the returned path is target joined with the
\* product's directory name with its trailing '.SAFE' removed.
C7_ReturnsPathWithoutSafe ==
    pc = "returned"
    => ret = OsPathJoin(target, SubSeq(DirNameOfCall, 1, Len(DirNameOfCall) - 5))

\* C8: when download_file fails in the storage on a key of the listing,
\* download raises that failure at once: the failed key is the last one
\* attempted, nothing runs afterwards, and every file written for the keys
\* before it, every file that was there before the call and every directory
\* created are still in place.
C8_FailedCopyAborts ==
    CopyFailed
    => /\ pc = "raised"
       /\ Len(s3_failed) = 1
       /\ raised = s3_failed[1].err
       /\ ret = <<>>
       /\ files[idx] = s3_failed[1].key
       /\ attempted = NonDir(SubSeq(files, 1, idx))
       /\ ~ENABLED NextDownload
       /\ \A j \in 1..(Len(attempted) - 1) :
            \E f \in fs_files :
                f.path = AbsComps(OsPathJoin(local_path, RelPath(attempted[j], product)))
       /\ \A f \in fs0_files : \E g \in fs_files : g.path = f.path
       /\ fs0_dirs \subseteq fs_dirs
       /\ AbsComps(local_path) \in fs_dirs
       /\ \A j \in 1..Len(attempted) :
            IsDir(fs_dirs, AbsComps(Dirname(OsPathJoin(local_path,
                                                      RelPath(attempted[j], product)))))

C8_Witness ==
    /\ CopyFailed
    /\ Len(attempted) >= 2
    /\ idx < Len(files)
    /\ fs_files # fs0_files

\* C9: get_product makes the output directory before it downloads, returns
\* output_path joined with the last path component of object_url, where the
\* object then is; when the storage download fails, that exception leaves
\* get_product and no path is returned.
C9_GetProduct ==
    /\ (pc \in {"gp_download", "returned"} \/ attempted # <<>>)
         => IsDir(fs_dirs, AbsComps(output_path))
    /\ pc = "returned"
         => /\ ret = OsPathJoin(output_path, Basename(object_url))
            /\ raised = ""
            /\ s3_failed = <<>>
            /\ [path |-> AbsComps(ret), src |-> object_url] \in fs_files
    /\ s3_failed # <<>>
         => /\ pc = "raised"
            /\ raised = s3_failed[1].err
            /\ ret = <<>>
            /\ fs_files = fs0_files

C9_Witness ==
    /\ s3_failed # <<>>
    /\ pc = "raised"
    /\ AbsComps(output_path) \notin fs0_dirs
    /\ AbsComps(output_path) \in fs_dirs
    /\ object_url \in bucket

\* C10: when download raises FileNotFoundError for an empty listing or
\* ValueError for a name without '.SAFE', the local filesystem is as it was
\* at the call and download_file has not been called.
C10_OwnErrorsLeaveFilesystem ==
    (pc = "raised" /\ raised \in {"FileNotFoundError", "ValueError"})
    => /\ fs_dirs = fs0_dirs
       /\ fs_files = fs0_files
       /\ attempted = <<>>

C10_Witness ==
    /\ pc = "raised"
    /\ raised = "ValueError"
    /\ fs0_files = {}
    /\ target = <<"o", "u", "t">>

====
